---- MODULE Spec2Model ----
(***************************************************************************)
(* Model of the Boursorama PDF statement importer (pdfbourso.py).          *)
(*                                                                         *)
(* The importer object keeps one attribute between calls, self.type, which *)
(* identify() writes.  The methods identify, file_name, file_account,      *)
(* file_date and extract are applied by the ingest framework to a file.    *)
(* A file is represented by the features of its converted text that the    *)
(* importer's regular expressions look at; the captured amount texts are   *)
(* sequences of characters and are converted as the code converts them.    *)
(***************************************************************************)
EXTENDS Integers, Sequences, FiniteSets, TLC

VARIABLES type, file, ret

vars == <<type, file, ret>>

(***************************************************************************)
(* Characters.  A text fragment is a sequence of one-character strings;    *)
(* "nbsp" stands for U+00A0 and "nl" for a line feed.                      *)
(***************************************************************************)
Digits == <<"0", "1", "2", "3", "4", "5", "6", "7", "8", "9">>

IsDigit(c) == \E i \in 1..10 : Digits[i] = c

DigitVal(c) == (CHOOSE i \in 1..10 : Digits[i] = c) - 1

\* Characters matched by \s in a Python 3 str pattern.
IsSpace(c) == c \in {" ", "nbsp", "nl"}

\* str.replace(old, new) for a one-character old and a new of length 0 or 1.
RECURSIVE replace(_, _, _)
replace(s, old, new) ==
    IF s = <<>> THEN <<>>
    ELSE (IF Head(s) = old THEN new ELSE <<Head(s)>>) \o replace(Tail(s), old, new)

\* re.sub(r"\s+", " ", s): every maximal run of whitespace becomes one space.
RECURSIVE collapse_spaces(_)
collapse_spaces(s) ==
    IF s = <<>> THEN <<>>
    ELSE IF IsSpace(Head(s))
         THEN IF Len(s) > 1 /\ IsSpace(s[2])
              THEN collapse_spaces(Tail(s))
              ELSE <<" ">> \o collapse_spaces(Tail(s))
         ELSE <<Head(s)>> \o collapse_spaces(Tail(s))

(***************************************************************************)
(* Decimals.  A decimal is sign, coefficient and number of fractional      *)
(* digits, as Python's decimal keeps them; ok = FALSE stands for the       *)
(* exception raised by the constructor.                                    *)
(***************************************************************************)
Dec(neg, coef, exp) == [ok |-> TRUE, neg |-> neg, coef |-> coef, exp |-> exp]

DecError == [ok |-> FALSE, neg |-> FALSE, coef |-> 0, exp |-> 0]

RECURSIVE lstrip(_)
lstrip(s) == IF s # <<>> /\ IsSpace(Head(s)) THEN lstrip(Tail(s)) ELSE s

RECURSIVE rstrip(_)
rstrip(s) ==
    IF s # <<>> /\ IsSpace(s[Len(s)]) THEN rstrip(SubSeq(s, 1, Len(s) - 1)) ELSE s

RECURSIVE DigitsValue(_)
DigitsValue(s) ==
    IF s = <<>> THEN 0
    ELSE 10 * DigitsValue(SubSeq(s, 1, Len(s) - 1)) + DigitVal(s[Len(s)])

CountOf(s, c) == Cardinality({i \in 1..Len(s) : s[i] = c})

point_index(body) ==
    IF CountOf(body, ".") = 1 THEN CHOOSE i \in 1..Len(body) : body[i] = "."
    ELSE Len(body)

decimal_body(body, neg) ==
    IF /\ \A i \in 1..Len(body) : IsDigit(body[i]) \/ body[i] = "."
       /\ CountOf(body, ".") <= 1
       /\ SelectSeq(body, IsDigit) # <<>>
    THEN Dec(neg, DigitsValue(SelectSeq(body, IsDigit)), Len(body) - point_index(body))
    ELSE DecError

decimal_signed(t) ==
    IF t # <<>> /\ Head(t) \in {"-", "+"} THEN decimal_body(Tail(t), Head(t) = "-")
    ELSE decimal_body(t, FALSE)

\* decimal.Decimal(str): surrounding whitespace is stripped, then an optional
\* sign, digits and at most one period, with at least one digit.
Decimal(s) == decimal_signed(rstrip(lstrip(s)))

\* beancount.core.number.D: the empty string gives Decimal(), commas and
\* ordinary spaces are removed, a failure is re-raised as ValueError.
D(s) ==
    IF s = <<>> THEN Dec(FALSE, 0, 0)
    ELSE Decimal(replace(replace(s, ",", <<>>), " ", <<>>))

\* Decimal * 1 and Decimal * -1.
times_sign(x, sign) == IF ~x.ok \/ sign = 1 THEN x ELSE [x EXCEPT !.neg = ~x.neg]

RECURSIVE Pow10(_)
Pow10(n) == IF n = 0 THEN 1 ELSE 10 * Pow10(n - 1)

\* The signed coefficient of x at e fractional digits (e >= x.exp).
Scaled(x, e) == (IF x.neg THEN -1 ELSE 1) * x.coef * Pow10(e - x.exp)

dec_signed(v, e, both_neg) == Dec(v < 0 \/ (v = 0 /\ both_neg), IF v < 0 THEN -v ELSE v, e)

dec_add_at(x, y, e) == dec_signed(Scaled(x, e) + Scaled(y, e), e, x.neg /\ y.neg)

\* Decimal + Decimal: exact, at the larger number of fractional digits.
dec_add(x, y) ==
    IF ~x.ok \/ ~y.ok THEN DecError
    ELSE dec_add_at(x, y, IF x.exp > y.exp THEN x.exp ELSE y.exp)

(***************************************************************************)
(* Dates.  A date text is the three numbers of "a/b/y" as matched by a     *)
(* pattern (w = number of digits of a); kind "empty" is the text "//",     *)
(* which the patterns written with \d* also match.                         *)
(***************************************************************************)
DateText(a, b, y, w) == [kind |-> "dmy", a |-> a, b |-> b, y |-> y, w |-> w]

EmptyDateText == [kind |-> "empty", a |-> 0, b |-> 0, y |-> 0, w |-> 0]

\* len() of a date text matched by \d{1,2}\/\d{2}\/\d{4}.
DateLen(t) == t.w + 8

Date(y, m, d) == [y |-> y, m |-> m, d |-> d]

\* The empty string that stands where a date is expected (line 638).
NoDate == Date(0, 0, 0)

IsLeap(y) == (y % 4 = 0 /\ y % 100 # 0) \/ y % 400 = 0

DaysIn(y, m) ==
    IF m = 2 THEN (IF IsLeap(y) THEN 29 ELSE 28)
    ELSE IF m \in {4, 6, 9, 11} THEN 30 ELSE 31

ValidDate(dt) == dt.m \in 1..12 /\ dt.d >= 1 /\ dt.d <= DaysIn(dt.y, dt.m) /\ dt.y >= 1

checked_date(dt) ==
    IF ValidDate(dt) THEN [ok |-> TRUE, date |-> dt] ELSE [ok |-> FALSE, date |-> NoDate]

\* dateutil.parser.parse(text, dayfirst="True").date(): the first number is
\* the day when it exceeds 12 or when the second can be a month, otherwise
\* the two are swapped; an impossible date raises.
parse_datetime(t) ==
    IF t.kind # "dmy" \/ t.a > 31 THEN [ok |-> FALSE, date |-> NoDate]
    ELSE IF t.a > 12 \/ t.b <= 12 THEN checked_date(Date(t.y, t.b, t.a))
    ELSE checked_date(Date(t.y, t.a, t.b))

timedelta0(dt) == dt

\* date + datetime.timedelta(1)
timedelta1(dt) ==
    IF dt.d < DaysIn(dt.y, dt.m) THEN Date(dt.y, dt.m, dt.d + 1)
    ELSE IF dt.m < 12 THEN Date(dt.y, dt.m + 1, 1)
    ELSE Date(dt.y + 1, 1, 1)

(***************************************************************************)
(* The account directory handed to the constructor (self.accountList):     *)
(* account key -> ledger account path.  A path is a sequence of the        *)
(* strings joined by ":" suffixes.                                         *)
(***************************************************************************)
accountList ==
    [k \in {"00012345678", "4979********1234", "12345-00012345678"} |->
        IF k = "00012345678" THEN <<"Actif:Boursorama:CC">>
        ELSE IF k = "4979********1234" THEN <<"Passif:Boursorama:CB">>
        ELSE <<"Passif:Boursorama:Pret">>]

\* self.accountList[compte]; the caller checks the key first (KeyError).
Lookup(key) == IF key \in DOMAIN accountList THEN accountList[key] ELSE <<>>

(***************************************************************************)
(* The account token of a text.  shape tells which account patterns find   *)
(* it, key is what the pattern of that shape captures and digits its run   *)
(* of eleven digits.                                                       *)
(*   digits11  "00012345678"              card    "4979********1234"       *)
(*   rib40618  "40618 80280 00012345678 " rib     "30004 80280 0001... "   *)
(*   credit    "N° du crédit : 12345-00012345678"                          *)
(***************************************************************************)
NoAccount == [shape |-> "none", key |-> "", digits |-> ""]

Account(shape, key, digits) == [shape |-> shape, key |-> key, digits |-> digits]

NoMatch == [matched |-> FALSE, key |-> ""]

\* re.search of the account pattern that file_account and extract use for a
\* dialect, and the group they read.
account_search(dialect, a) ==
    CASE dialect = "Compte" ->
            IF a.shape \in {"digits11", "rib40618", "rib", "credit"}
            THEN [matched |-> TRUE, key |-> a.digits] ELSE NoMatch
      [] dialect = "CB" ->
            IF a.shape = "card" THEN [matched |-> TRUE, key |-> a.key] ELSE NoMatch
      [] dialect = "Amortissement" ->
            IF a.shape = "credit" THEN [matched |-> TRUE, key |-> a.key] ELSE NoMatch
      [] dialect \in {"EspeceBourse", "DividendeBourse"} ->
            IF a.shape = "rib40618" THEN [matched |-> TRUE, key |-> a.digits] ELSE NoMatch
      [] dialect \in {"Bourse", "OPCVM"} ->
            IF a.shape \in {"rib40618", "rib"}
            THEN [matched |-> TRUE, key |-> a.digits] ELSE NoMatch
      [] OTHER -> NoMatch

(***************************************************************************)
(* identify                                                                *)
(***************************************************************************)
\* The ordered checks of identify: f.markers holds the numbers of the
\* checks whose pattern is found in the text.
Checks ==
    <<"DividendeBourse", "EspeceBourse", "Bourse", "OPCVM", "CB", "Compte",
      "Amortissement">>

Unset == "unset"

first_match_last(markers) == CHOOSE i \in markers : \A j \in markers : j <= i

\* The check whose branch identify takes: the first one that matches.
first_match(markers) == CHOOSE i \in markers : \A j \in markers : i <= j

\* identify(self, file): the new self.type and the value returned.
identify(self_type, f) ==
    IF ~f.pdf THEN [type |-> self_type, value |-> "False"]
    ELSE IF f.markers # {}
         THEN [type |-> Checks[first_match(f.markers)], value |-> "1"]
         ELSE [type |-> self_type, value |-> "None"]

(***************************************************************************)
(* file_name, file_date, file_account                                      *)
(***************************************************************************)
file_name_label(t) ==
    CASE t = "DividendeBourse" -> "Relevé Dividendes.pdf"
      [] t = "EspeceBourse" -> "Relevé Espece.pdf"
      [] t = "Bourse" -> "Relevé Operation.pdf"
      [] t = "Compte" -> "Relevé Compte.pdf"
      [] t = "CB" -> "Relevé CB.pdf"
      [] OTHER -> "Boursorama.pdf"

file_name_of(t) ==
    [type |-> t,
     exc |-> IF t = Unset THEN "AttributeError" ELSE "",
     value |-> IF t = Unset THEN "" ELSE file_name_label(t)]

\* file_name(self, file): reading self.type raises AttributeError while no
\* identify has set it.
file_name(self_type, f) == file_name_of(identify(self_type, f).type)

file_date_of(p) ==
    [exc |-> IF p.ok THEN "" ELSE "ParserError", known |-> p.ok, date |-> p.date]

\* file_date(self, file): None when the anchored date pattern is not found.
file_date(f) ==
    IF ~f.date_ref.matched THEN [exc |-> "", known |-> FALSE, date |-> NoDate]
    ELSE file_date_of(parse_datetime(f.date_ref.text))

NoPath == [present |-> FALSE, path |-> <<>>]

FileAccountRaised(t, exc) == [type |-> t, exc |-> exc, value |-> NoPath]

FileAccountReturned(t, value) == [type |-> t, exc |-> "", value |-> value]

file_account_of(t, m, isin) ==
    IF t = Unset \/ ~m.matched THEN FileAccountRaised(t, "AttributeError")
    ELSE IF t \in {"Bourse", "OPCVM"} /\ isin = "" THEN FileAccountReturned(t, NoPath)
    ELSE IF m.key \notin DOMAIN accountList THEN FileAccountRaised(t, "KeyError")
    ELSE IF t \in {"Bourse", "OPCVM"}
         THEN FileAccountReturned(t, [present |-> TRUE, path |-> Append(Lookup(m.key), isin)])
    ELSE IF t = "DividendeBourse"
         THEN FileAccountReturned(t, [present |-> TRUE, path |-> Append(Lookup(m.key), "Cash")])
    ELSE FileAccountReturned(t, [present |-> TRUE, path |-> Lookup(m.key)])

file_account_typed(t, f) == file_account_of(t, account_search(t, f.acct), f.isin)

\* file_account(self, file).  self.debug is always True (line 44), so the
\* print of match.group(1) runs before the test of match.
file_account(self_type, f) == file_account_typed(identify(self_type, f).type, f)

(***************************************************************************)
(* Records returned by extract (beancount.core.data).  Both directives     *)
(* have the same fields here; the ones a directive does not have are       *)
(* empty.                                                                  *)
(***************************************************************************)
NoDocument == [known |-> FALSE, date |-> NoDate, label |-> ""]

\* data.new_metadata(file.name, lineno) with "source" and "document" added.
Meta(lineno, document) ==
    [lineno |-> lineno, source |-> "pdfbourso", has_document |-> TRUE,
     document |-> document]

\* The same without the "document" entry.
MetaSourceOnly(lineno) ==
    [lineno |-> lineno, source |-> "pdfbourso", has_document |-> FALSE,
     document |-> NoDocument]

Amount(number, currency) == [number |-> number, currency |-> currency]

NoAmount == Amount(DecError, "")

NoCost == [present |-> FALSE, number |-> DecError, currency |-> ""]

Cost(number, currency) == [present |-> TRUE, number |-> number, currency |-> currency]

Posting(account, units, cost, price) ==
    [account |-> account, units |-> units, cost |-> cost, price |-> price]

None == [none |-> TRUE, text |-> <<>>]

Str(text) == [none |-> FALSE, text |-> text]

Transaction(meta, date, payee, narration, tags, postings) ==
    [kind |-> "Transaction", meta |-> meta, date |-> date, account |-> <<>>,
     amount |-> NoAmount, payee |-> payee, narration |-> narration, tags |-> tags,
     postings |-> postings]

Balance(meta, date, account, amount) ==
    [kind |-> "Balance", meta |-> meta, date |-> date, account |-> account,
     amount |-> amount, payee |-> <<>>, narration |-> None, tags |-> {},
     postings |-> <<>>]

\* The first exception raised by steps run in this order ("" = none).
RECURSIVE FirstExc(_)
FirstExc(es) ==
    IF es = <<>> THEN ""
    ELSE IF Head(es) # "" THEN Head(es) ELSE FirstExc(Tail(es))

RECURSIVE Flatten(_)
Flatten(ss) == IF ss = <<>> THEN <<>> ELSE Head(ss) \o Flatten(Tail(ss))

Returned(entries) == [exc |-> "", entries |-> entries]

Raised(exc) == [exc |-> exc, entries |-> <<>>]

\* What a piece of code gives whose steps raise excs (in this order) and
\* that appends entries when none of them raises.
Outcome(excs, entries) ==
    IF FirstExc(excs) # "" THEN Raised(FirstExc(excs)) ELSE Returned(entries)

\* A loop whose iterations are ops, between the steps before and after it.
LoopOutcome(before, first, ops, after, last) ==
    Outcome(before \o [i \in 1..Len(ops) |-> ops[i].exc] \o after,
            first \o Flatten([i \in 1..Len(ops) |-> ops[i].entries]) \o last)

KeyExc(m) == IF m.key \in DOMAIN accountList THEN "" ELSE "KeyError"

DecExc(x, exc) == IF x.ok THEN "" ELSE exc

DateExc(p) == IF p.ok THEN "" ELSE "ParserError"

(***************************************************************************)
(* extract, dialect "Compte" (lines 624-792).                              *)
(*   f.solde_initial  [matched, ws1, date, ws2, montant]: the groups of    *)
(*                    the opening-balance pattern, ws1 and ws2 the lengths *)
(*                    of the whitespace groups 1 and 3                     *)
(*   f.operations     the tuples of findall: [payee, date, gap, montant,   *)
(*                    narration], gap the length of the third group        *)
(*   f.solde_final    [matched, ws, montant]                               *)
(*   f.date_40618     [matched, date]: the date before "40618"            *)
(***************************************************************************)
\* .replace(".", "").replace(",", ".")
montant_fr(s) == replace(replace(s, ".", <<>>), ",", <<".">>)

est_debit_solde_le(longueur) == longueur <= 84

\* Lines 651 and 767: a short span is a debit.
est_debit_solde(longueur) == longueur < 84

est_credit_operation_ge(longueur) == longueur >= 148

\* Line 717: a long span is a credit.
est_credit_operation(longueur) == longueur > 148

signe_solde(balance, longueur) ==
    IF est_debit_solde(longueur) THEN <<"-">> \o balance ELSE balance

signe_operation(montant, longueur) ==
    IF est_credit_operation(longueur) THEN montant ELSE <<"-">> \o montant

or_inconnu(text) == IF text = <<>> THEN <<"inconnu">> ELSE text

compte_transaction(chunk, index, account, document, units, date) ==
    [exc |-> FirstExc(<<DecExc(units, "InvalidOperation"), DateExc(date)>>),
     entries |-> <<Transaction(Meta(index, document), date.date,
                               or_inconnu(collapse_spaces(chunk.payee)),
                               Str(collapse_spaces(chunk.narration)), {},
                               <<Posting(account, Amount(units, "EUR"),
                                         NoCost, NoAmount)>>)>>]

\* One iteration of the loop over the matched operations (lines 685-756).
compte_operation(chunk, index, account, document) ==
    compte_transaction(chunk, index, account, document,
        Decimal(signe_operation(montant_fr(chunk.montant),
                                Len(chunk.payee) + DateLen(chunk.date) + chunk.gap
                                + Len(chunk.montant))),
        parse_datetime(chunk.date))

\* The opening balance (lines 636-675): an empty date and an empty amount
\* text when the pattern is not found.
compte_solde_initial(si, account, document, date, balance) ==
    [exc |-> FirstExc(<<IF si.matched THEN DateExc(date) ELSE "",
                        IF account.known THEN "" ELSE "KeyError",
                        DecExc(D(balance), "ValueError")>>),
     entries |-> <<Balance(Meta(0, document),
                           IF si.matched THEN timedelta1(date.date) ELSE NoDate,
                           account.path, Amount(D(balance), "EUR"))>>]

\* The closing balance (lines 759-792).
compte_solde_final(found, account, document, date, balance) ==
    [exc |-> IF found
             THEN FirstExc(<<DateExc(date), DecExc(balance, "ValueError")>>) ELSE "",
     entries |-> IF found
                 THEN <<Balance(Meta(0, document), date.date, account.path,
                                Amount(balance, "EUR"))>>
                 ELSE <<>>]

compte_outcome(m, initial, ops, final) ==
    LoopOutcome(<<IF m.matched THEN "" ELSE "UnboundLocalError", initial.exc>>,
                initial.entries, ops, <<final.exc>>, final.entries)

Resolved(m) == [known |-> m.key \in DOMAIN accountList, path |-> Lookup(m.key)]

compte_extract(m, account, f, document) ==
    compte_outcome(m,
        compte_solde_initial(f.solde_initial, account, document,
            parse_datetime(f.solde_initial.date),
            IF f.solde_initial.matched
            THEN signe_solde(montant_fr(f.solde_initial.montant),
                             f.solde_initial.ws1 + f.solde_initial.ws2
                             + DateLen(f.solde_initial.date)
                             + Len(f.solde_initial.montant))
            ELSE <<>>),
        [i \in 1..Len(f.operations) |->
            compte_operation(f.operations[i], i, account.path, document)],
        compte_solde_final(f.solde_final.matched /\ f.date_40618.matched, account,
            document, parse_datetime(f.date_40618.date),
            D(signe_solde(montant_fr(f.solde_final.montant), f.solde_final.ws))))

extract_Compte(f, document) ==
    compte_extract(account_search("Compte", f.acct),
                   Resolved(account_search("Compte", f.acct)), f, document)

(***************************************************************************)
(* extract, dialect "CB" (lines 892-993).                                  *)
(*   f.cartes    the lines "<date> CARTE<sep><merchant><gap><montant>",    *)
(*               sep and gap the numbers of spaces (at least 1)            *)
(*   f.debit_cb  [matched, date, montant]: "A VOTRE DEBIT LE ..."          *)
(***************************************************************************)
RECURSIVE Spaces(_)
Spaces(n) == IF n <= 0 THEN <<>> ELSE <<" ">> \o Spaces(n - 1)

\* The groups of the pattern of line 903 on a line: the greedy (.*) between
\* "CARTE\s" and "\s<montant>" keeps every space but one on each side.
carte_groups(line) ==
    [date |-> line.date,
     payee |-> Spaces(line.sep - 1) \o line.merchant \o Spaces(line.gap - 1),
     montant |-> line.montant]

cb_transaction(chunk, index, account, document, units, date) ==
    [exc |-> FirstExc(<<IF account.known THEN "" ELSE "KeyError",
                        DecExc(units, "InvalidOperation"), DateExc(date)>>),
     entries |-> <<Transaction(Meta(index, document), date.date,
                               or_inconnu(collapse_spaces(chunk.payee)),
                               None, {},
                               <<Posting(account.path, Amount(units, "EUR"),
                                         NoCost, NoAmount)>>)>>]

\* One iteration of the loop over the card lines (lines 912-960).
cb_operation(chunk, index, account, document) ==
    cb_transaction(chunk, index, account, document,
                   Decimal(<<"-">> \o montant_fr(chunk.montant)),
                   parse_datetime(chunk.date))

\* The closing balance (lines 963-993).
cb_solde_final(found, account, document, date, balance) ==
    [exc |-> IF found
             THEN FirstExc(<<DateExc(date), IF account.known THEN "" ELSE "KeyError",
                             DecExc(balance, "ValueError")>>)
             ELSE "",
     entries |-> IF found
                 THEN <<Balance(Meta(0, document), date.date, account.path,
                                Amount(balance, "EUR"))>>
                 ELSE <<>>]

cb_outcome(m, ops, final) ==
    LoopOutcome(<<IF m.matched THEN "" ELSE "UnboundLocalError">>, <<>>, ops,
                <<final.exc>>, final.entries)

cb_extract(m, account, f, document) ==
    cb_outcome(m,
        [i \in 1..Len(f.cartes) |->
            cb_operation(carte_groups(f.cartes[i]), i, account, document)],
        cb_solde_final(f.debit_cb.matched /\ f.date_40618.matched, account, document,
            parse_datetime(f.date_40618.date),
            D(<<"-">> \o montant_fr(f.debit_cb.montant))))

extract_CB(f, document) ==
    cb_extract(account_search("CB", f.acct), Resolved(account_search("CB", f.acct)),
               f, document)

(***************************************************************************)
(* extract, dialect "Amortissement" (lines 794-890).                       *)
(*   f.echeances  the tuples of findall: [date, cols], cols the eight      *)
(*                texts captured after the date (chunk[1] .. chunk[8])     *)
(***************************************************************************)
crd_text_last(cols) == cols[8]

\* chunk[7], the text read as the remaining principal (line 833).
crd_text(cols) == cols[7]

\* .replace(",", ".")
virgule_point(s) == replace(s, ",", <<".">>)

amortissement_entries(meta, account, date, prelevement, amortissement, interet, assurance, CRD) ==
    [exc |-> FirstExc(<<DateExc(date),
                        DecExc(prelevement, "InvalidOperation"),
                        DecExc(amortissement, "InvalidOperation"),
                        DecExc(interet, "InvalidOperation"),
                        DecExc(assurance, "InvalidOperation"),
                        DecExc(CRD, "InvalidOperation"),
                        IF account.known THEN "" ELSE "KeyError">>),
     entries |->
       <<Transaction(meta, date.date, <<"ECH PRET:8028000060686223">>, Str(<<>>), {},
            <<Posting(<<"Actif:Boursorama:CCJoint">>, Amount(prelevement, "EUR"),
                      NoCost, NoAmount),
              Posting(account.path, Amount(amortissement, "EUR"), NoCost, NoAmount),
              Posting(<<"Depenses:Banque:Interet">>, Amount(interet, "EUR"),
                      NoCost, NoAmount),
              Posting(<<"Depenses:Banque:AssuEmprunt">>, Amount(assurance, "EUR"),
                      NoCost, NoAmount)>>),
         Balance(meta, timedelta1(date.date), account.path, Amount(CRD, "EUR"))>>]

\* One iteration of the loop over the schedule lines (lines 813-890).
amortissement_echeance(chunk, index, account) ==
    amortissement_entries(MetaSourceOnly(index), account, parse_datetime(chunk.date),
        Decimal(<<"-">> \o virgule_point(chunk.cols[1])),
        Decimal(virgule_point(chunk.cols[2])),
        Decimal(virgule_point(chunk.cols[3])),
        Decimal(virgule_point(chunk.cols[4])),
        Decimal(<<"-">> \o virgule_point(crd_text(chunk.cols))))

amortissement_extract(m, account, f) ==
    LoopOutcome(<<IF m.matched THEN "" ELSE "UnboundLocalError">>, <<>>,
        [i \in 1..Len(f.echeances) |-> amortissement_echeance(f.echeances[i], i, account)],
        <<>>, <<>>)

extract_Amortissement(f, document) ==
    amortissement_extract(account_search("Amortissement", f.acct),
                          Resolved(account_search("Amortissement", f.acct)), f)

(***************************************************************************)
(* extract, dialects "DividendeBourse" and "EspeceBourse" (lines 188-295). *)
(*   f.dividendes  the tuples of findall: [date, quantite, label, isin,    *)
(*                 brut, retenue1, retenue2, net]; retenue1 is empty when  *)
(*                 its optional group did not take part in the match       *)
(*   f.especes     the tuples of findall: [date, solde]                    *)
(***************************************************************************)
\* .replace(",", ".").replace(" ", "").replace("\xa0", "")
space_norm(s) == replace(replace(replace(s, ",", <<".">>), " ", <<>>), "nbsp", <<>>)

\* chunk[1].replace(" ", "").replace(",", ".") (line 289)
espece_norm(s) == replace(replace(s, " ", <<>>), ",", <<".">>)

\* Decimal(text or 0)
Decimal_or_0(text) == IF text = <<>> THEN Dec(FALSE, 0, 0) ELSE Decimal(text)

dividende_transaction(chunk, compte, document, brut, impot, net, date) ==
    [exc |-> FirstExc(<<DecExc(brut, "InvalidOperation"),
                        DecExc(impot, "InvalidOperation"),
                        DecExc(net, "InvalidOperation"), DateExc(date)>>),
     entries |->
       <<Transaction(Meta(0, document), date.date,
            <<"Dividende pour ">> \o chunk.quantite \o <<" titres ">> \o chunk.label,
            None, {chunk.isin},
            <<Posting(<<"Revenus:Dividendes">>, Amount(brut, "EUR"), NoCost, NoAmount),
              Posting(<<"Depenses:Impots:IR">>, Amount(impot, "EUR"), NoCost, NoAmount),
              Posting(compte, Amount(net, "EUR"), NoCost, NoAmount)>>)>>]

\* One iteration of the loop over the dividend lines (lines 195-271).
dividende_operation(chunk, compte, document) ==
    dividende_transaction(chunk, compte, document,
        times_sign(Decimal(space_norm(chunk.brut)), -1),
        dec_add(Decimal_or_0(space_norm(chunk.retenue1)),
                Decimal(space_norm(chunk.retenue2))),
        Decimal(space_norm(chunk.net)),
        parse_datetime(chunk.date))

dividende_extract(compte, f, document) ==
    LoopOutcome(<<compte.exc>>, <<>>,
        [i \in 1..Len(f.dividendes) |->
            dividende_operation(f.dividendes[i], compte.value.path, document)],
        <<>>, <<>>)

extract_DividendeBourse(self_type, f, document) ==
    dividende_extract(file_account(self_type, f), f, document)

espece_balance(compte, document, date, solde) ==
    [exc |-> FirstExc(<<DateExc(date), DecExc(solde, "ValueError")>>),
     entries |-> <<Balance(Meta(0, document), date.date, Append(compte, "Cash"),
                           Amount(solde, "EUR"))>>]

\* One iteration of the loop over the "SOLDE" lines (lines 280-295).
espece_operation(chunk, compte, document) ==
    espece_balance(compte, document, parse_datetime(chunk.date),
                   D(espece_norm(chunk.solde)))

espece_extract(compte, f, document) ==
    LoopOutcome(<<compte.exc>>, <<>>,
        [i \in 1..Len(f.especes) |->
            espece_operation(f.especes[i], compte.value.path, document)],
        <<>>, <<>>)

extract_EspeceBourse(self_type, f, document) ==
    espece_extract(file_account(self_type, f), f, document)

(***************************************************************************)
(* extract, dialects "Bourse" and "OPCVM" (lines 297-622).                 *)
(*   f.isin              the "Code ISIN" capture, "" when not found        *)
(*   f.bourse.montants   the five [text, currency] pairs after the amount  *)
(*                       header, <<>> when the pattern is not found        *)
(*   f.bourse.frais      the three pairs after the fee header, or <<>>     *)
(*   f.bourse.execution  [matched, date, quantite, designation]            *)
(*   f.bourse.cours      [matched, text, currency]                         *)
(*   f.bourse.achat      "ACHAT COMPTANT" is found                         *)
(*   f.opcvm             the same for a fund operation: montants are the   *)
(*                       pairs that follow the five-label header, achat is *)
(*                       "SOUSCRIPTION" is found                           *)
(***************************************************************************)
signe_titres_inverse(achat) == IF achat THEN -1 ELSE 1

\* 1 if ope["Achat"] else -1 (lines 373 and 531)
signe_titres(achat) == IF achat THEN 1 ELSE -1

\* -1 if ope["Achat"] else 1 (lines 416 and 574)
signe_especes(achat) == IF achat THEN -1 ELSE 1

\* The three postings and the transaction built from the scratch dictionary
\* ope (lines 362-457 and 520-622).
titres_entries(account, isin, ope, document, quantite, cours, total, frais, date) ==
    [exc |-> FirstExc(
               <<IF account.known THEN "" ELSE "KeyError",
                 IF isin # "" /\ ope.has_quantite THEN "" ELSE "KeyError:ope",
                 DecExc(quantite, "InvalidOperation"),
                 IF ope.has_cours THEN "" ELSE "KeyError:ope",
                 DecExc(cours, "InvalidOperation"),
                 DecExc(total, "InvalidOperation"),
                 IF ope.has_frais THEN "" ELSE "KeyError:ope",
                 DecExc(frais, "InvalidOperation"),
                 DateExc(date)>>),
     entries |->
       <<Transaction(Meta(0, document), date.date, or_inconnu(ope.designation),
            Str(<<isin>>), {},
            <<Posting(Append(account.path, isin), Amount(quantite, isin),
                      IF ope.achat THEN Cost(cours, ope.currency_cours) ELSE NoCost,
                      Amount(cours, ope.currency_cours)),
              Posting(Append(account.path, "Cash"), Amount(total, ope.currency_total),
                      NoCost, NoAmount),
              Posting(<<"Depenses:Banque:Frais">>, Amount(frais, ope.currency_frais),
                      NoCost, NoAmount)>>)>>]

\* frais_extra is the second fee component of a fund operation.
titres_transaction(account, isin, ope, frais_extra, document) ==
    titres_entries(account, isin, ope, document,
        times_sign(Decimal(space_norm(ope.quantite)), signe_titres(ope.achat)),
        Decimal(space_norm(ope.cours)),
        times_sign(Decimal(space_norm(ope.total)), signe_especes(ope.achat)),
        IF frais_extra.present
        THEN dec_add(Decimal(space_norm(ope.frais)), Decimal(space_norm(frais_extra.text)))
        ELSE Decimal(space_norm(ope.frais)),
        parse_datetime(ope.date))

NoPair == [text |-> <<>>, currency |-> ""]

Nth(pairs, n) == IF n <= Len(pairs) THEN pairs[n] ELSE NoPair

NoExtra == [present |-> FALSE, text |-> <<>>]

Ope(total, frais, has_frais, b) ==
    [total |-> total.text, currency_total |-> total.currency,
     has_frais |-> has_frais,
     frais |-> frais.text, currency_frais |-> frais.currency,
     has_quantite |-> b.execution.matched,
     date |-> b.execution.date, quantite |-> b.execution.quantite,
     designation |-> b.execution.designation,
     has_cours |-> b.cours.matched,
     cours |-> b.cours.text, currency_cours |-> b.cours.currency,
     achat |-> b.achat]

titres_outcome(m, found1, found2, t) ==
    Outcome(<<IF m.matched THEN "" ELSE "UnboundLocalError",
              IF found1 THEN "" ELSE "KeyError:ope",
              IF found2 THEN "" ELSE "KeyError:ope",
              t.exc>>, t.entries)

bourse_extract(m, b, isin, document) ==
    titres_outcome(m, b.montants # <<>>, b.execution.matched,
        titres_transaction(Resolved(m), isin,
            Ope(Nth(b.montants, 3), Nth(b.frais, 3), b.frais # <<>>, b),
            NoExtra, document))

extract_Bourse(f, document) ==
    bourse_extract(account_search("Bourse", f.acct), f.bourse, f.isin, document)

opcvm_extract(m, b, isin, document) ==
    titres_outcome(m, Len(b.montants) >= 4, b.cours.matched,
        titres_transaction(Resolved(m), isin,
            Ope(Nth(b.montants, 4), Nth(b.montants, 3), TRUE, b),
            [present |-> TRUE, text |-> Nth(b.montants, 2).text], document))

extract_OPCVM(f, document) ==
    opcvm_extract(account_search("OPCVM", f.acct), f.opcvm, f.isin, document)

(***************************************************************************)
(* extract                                                                 *)
(***************************************************************************)
Typed(t, r) == [type |-> t, exc |-> r.exc, entries |-> r.entries]

\* The extractor of the dialect that self.type names (lines 188-993).
extract_dialect(t, f, document) ==
    CASE t = "DividendeBourse" -> extract_DividendeBourse(t, f, document)
      [] t = "EspeceBourse" -> extract_EspeceBourse(t, f, document)
      [] t = "Bourse" -> extract_Bourse(f, document)
      [] t = "OPCVM" -> extract_OPCVM(f, document)
      [] t = "Compte" -> extract_Compte(f, document)
      [] t = "Amortissement" -> extract_Amortissement(f, document)
      [] t = "CB" -> extract_CB(f, document)
      [] OTHER -> Returned(<<>>)

extract_named(self_type, f, fd, fn) ==
    IF fd.exc # "" THEN Typed(self_type, Raised(fd.exc))
    ELSE IF fn.exc # "" THEN Typed(fn.type, Raised(fn.exc))
    ELSE Typed(fn.type,
               extract_dialect(fn.type, f,
                   [known |-> fd.known, date |-> fd.date, label |-> fn.value]))

\* extract(self, file): the display name first (line 177), then the
\* extractor of the dialect.
extract(self_type, f) == extract_named(self_type, f, file_date(f), file_name(self_type, f))

(***************************************************************************)
(* Files.  EmptyText is a PDF whose text holds nothing the importer looks  *)
(* for; the files of a specification override some of its fields.          *)
(***************************************************************************)
NoDateMatch == [matched |-> FALSE, date |-> EmptyDateText]

NoTitres ==
    [montants |-> <<>>, frais |-> <<>>,
     execution |-> [matched |-> FALSE, date |-> EmptyDateText, quantite |-> <<>>,
                    designation |-> <<>>],
     cours |-> [matched |-> FALSE, text |-> <<>>, currency |-> ""],
     achat |-> FALSE]

EmptyText ==
    [pdf |-> TRUE, markers |-> {},
     date_ref |-> [matched |-> FALSE, text |-> EmptyDateText],
     acct |-> NoAccount, isin |-> "",
     dividendes |-> <<>>, especes |-> <<>>,
     bourse |-> NoTitres, opcvm |-> NoTitres,
     solde_initial |-> [matched |-> FALSE, ws1 |-> 0, date |-> EmptyDateText,
                        ws2 |-> 0, montant |-> <<>>],
     operations |-> <<>>,
     solde_final |-> [matched |-> FALSE, ws |-> 0, montant |-> <<>>],
     date_40618 |-> NoDateMatch,
     echeances |-> <<>>,
     cartes |-> <<>>,
     debit_cb |-> [matched |-> FALSE, date |-> EmptyDateText, montant |-> <<>>]]

\* A file that is not a PDF: no text is looked at before identify returns.
NotPdf == [EmptyText EXCEPT !.pdf = FALSE]

SeqsUpTo(S, n) == UNION {[1..k -> S] : k \in 0..n}

(***************************************************************************)
(* The importer as a state machine.  type is self.type ("unset" until an   *)
(* identify assigns it), file the file the framework is working on and ret *)
(* what the last call on it returned or raised.                            *)
(***************************************************************************)
NoRet ==
    [op |-> "none", exc |-> "", value |-> "", account |-> NoPath,
     date |-> [known |-> FALSE, date |-> NoDate], entries |-> <<>>]

Result(t, r) == [type |-> t, ret |-> r]

call_identify(r) == Result(r.type, [NoRet EXCEPT !.op = "identify", !.value = r.value])

call_file_name(r) ==
    Result(r.type, [NoRet EXCEPT !.op = "file_name", !.exc = r.exc, !.value = r.value])

call_file_account(r) ==
    Result(r.type, [NoRet EXCEPT !.op = "file_account", !.exc = r.exc,
                                 !.account = r.value])

call_file_date(t, r) ==
    Result(t, [NoRet EXCEPT !.op = "file_date", !.exc = r.exc,
                            !.date = [known |-> r.known, date |-> r.date]])

call_extract(r) ==
    Result(r.type, [NoRet EXCEPT !.op = "extract", !.exc = r.exc, !.entries = r.entries])

\* The framework passes on to another file.
Submit(f) ==
    /\ file' = f
    /\ ret' = NoRet
    /\ UNCHANGED type

Identify ==
    /\ type' = call_identify(identify(type, file)).type
    /\ ret' = call_identify(identify(type, file)).ret
    /\ UNCHANGED file

FileName ==
    /\ type' = call_file_name(file_name(type, file)).type
    /\ ret' = call_file_name(file_name(type, file)).ret
    /\ UNCHANGED file

FileAccount ==
    /\ type' = call_file_account(file_account(type, file)).type
    /\ ret' = call_file_account(file_account(type, file)).ret
    /\ UNCHANGED file

FileDate ==
    /\ type' = call_file_date(type, file_date(file)).type
    /\ ret' = call_file_date(type, file_date(file)).ret
    /\ UNCHANGED file

Extract ==
    /\ type' = call_extract(extract(type, file)).type
    /\ ret' = call_extract(extract(type, file)).ret
    /\ UNCHANGED file

\* The state after pdfbourso(accountList) and the calls of the framework.
InitOn(Files) == type = Unset /\ file \in Files /\ ret = NoRet

(***************************************************************************)
(* Sample texts and bounds.                                                *)
(***************************************************************************)
\* Spans are taken within Window of the two thresholds.
Window == 1

\* Longest sequence of matched lines in a file.
MaxLines == 2

D_01_01_2023 == DateText(1, 1, 2023, 2)

D_31_12_2023 == DateText(31, 12, 2023, 2)

D_28_02_2024 == DateText(28, 2, 2024, 2)

D_5_03_2023 == DateText(5, 3, 2023, 1)

D_05_03_2023 == DateText(5, 3, 2023, 2)

\* "31/02/2023": matched by the date patterns, not a date.
D_31_02_2023 == DateText(31, 2, 2023, 2)

M_1234_56 == <<"1", ".", "2", "3", "4", ",", "5", "6">>

M_45_30 == <<"4", "5", ",", "3", "0">>

M_1234567_89 == <<"1", ".", "2", "3", "4", ".", "5", "6", "7", ",", "8", "9">>

T_VIR == <<"V", "I", "R">>

T_A__B_ == <<"A", " ", " ", "B", " ">>

T_REF == <<"R", "E", "F">>

CompteConnu == Account("digits11", "00012345678", "00012345678")

CompteInconnu == Account("digits11", "00099999999", "00099999999")

(***************************************************************************)
(* Specification SpecCompte: account statements (dialect "Compte").        *)
(***************************************************************************)
SoldeSpans == {30} \cup ((84 - Window)..(84 + Window))

OperationSpans == {40} \cup ((148 - Window)..(148 + Window))

solde_initial_of(ws1, span, date, montant) ==
    [matched |-> TRUE, ws1 |-> ws1, date |-> date,
     ws2 |-> span - ws1 - DateLen(date) - Len(montant), montant |-> montant]

operation_of(payee, date, span, montant, narration) ==
    [payee |-> payee, date |-> date,
     gap |-> span - Len(payee) - DateLen(date) - Len(montant),
     montant |-> montant, narration |-> narration]

CompteVide ==
    [EmptyText EXCEPT !.markers = {6}, !.acct = CompteConnu,
                      !.date_ref = [matched |-> TRUE, text |-> D_31_12_2023]]

CompteSolde ==
    [CompteVide EXCEPT !.solde_initial = solde_initial_of(1, 84, D_01_01_2023, M_1234_56)]

OperationLines ==
    {operation_of(p, D_05_03_2023, span, m, <<>>) :
        p \in {T_VIR, T_A__B_}, span \in OperationSpans, m \in {M_45_30, M_1234_56}}
    \cup {operation_of(T_VIR, D_5_03_2023, 148, M_45_30, T_REF),
          operation_of(T_VIR, D_31_02_2023, 149, M_45_30, <<>>)}

OperationPair ==
    {operation_of(T_VIR, D_05_03_2023, 148, M_45_30, <<>>),
     operation_of(T_A__B_, D_5_03_2023, 149, M_1234_56, T_REF)}

FilesCompte ==
    {[CompteVide EXCEPT !.solde_initial = solde_initial_of(ws1, span, d, m)] :
        ws1 \in {1, 3}, span \in SoldeSpans,
        d \in {D_01_01_2023, D_31_12_2023, D_28_02_2024, D_5_03_2023, D_31_02_2023},
        m \in {M_1234_56, M_45_30}}
    \cup {[b EXCEPT !.operations = <<l>>] :
             b \in {CompteVide, CompteSolde}, l \in OperationLines}
    \cup {[CompteSolde EXCEPT !.operations = ls] : ls \in SeqsUpTo(OperationPair, MaxLines)}
    \cup {[CompteSolde EXCEPT !.solde_final = [matched |-> TRUE, ws |-> ws, montant |-> m],
                              !.date_40618 = dm] :
             ws \in SoldeSpans, m \in {M_1234_56, M_45_30, M_1234567_89},
             dm \in {NoDateMatch, [matched |-> TRUE, date |-> D_31_12_2023]}}
    \cup {[CompteSolde EXCEPT !.acct = a] : a \in {NoAccount, CompteInconnu}}
    \cup {EmptyText, NotPdf}

InitCompte == InitOn(FilesCompte)

NextCompte ==
    \/ \E f \in FilesCompte : Submit(f)
    \/ Identify
    \/ FileName
    \/ FileAccount
    \/ FileDate
    \/ Extract

SpecCompte == InitCompte /\ [][NextCompte]_vars

\* The value, in hundredths, that a sample amount text states.
centimes_attendus(text) ==
    CASE text = M_1234_56 -> 123456
      [] text = M_45_30 -> 4530
      [] text = M_1234567_89 -> 123456789

ExtraitCompte == ret.op = "extract" /\ ret.exc = "" /\ type = "Compte"

SoldeInitialSpan ==
    file.solde_initial.ws1 + file.solde_initial.ws2
    + DateLen(file.solde_initial.date) + Len(file.solde_initial.montant)

SoldeFinalFound == file.solde_final.matched /\ file.date_40618.matched

\* C4: in an account statement the opening balance is negative when its span
\* (the two whitespace runs, the date and the amount) is 83 or less and
\* positive when it is 84 or more, and the closing balance likewise with the
\* whitespace run before its amount; the magnitude is the stated amount.
C4_SoldeSeuil84 ==
    ExtraitCompte =>
      /\ file.solde_initial.matched =>
           LET b == ret.entries[1].amount.number
           IN  /\ b.ok /\ b.exp = 2
               /\ b.coef = centimes_attendus(file.solde_initial.montant)
               /\ (SoldeInitialSpan <= 83 => b.neg)
               /\ (SoldeInitialSpan >= 84 => ~b.neg)
      /\ SoldeFinalFound =>
           LET b == ret.entries[Len(ret.entries)].amount.number
           IN  /\ b.ok /\ b.exp = 2
               /\ b.coef = centimes_attendus(file.solde_final.montant)
               /\ (file.solde_final.ws <= 83 => b.neg)
               /\ (file.solde_final.ws >= 84 => ~b.neg)

\* An opening balance of span 84 (credit) with a closing balance of span 83
\* (debit) has been extracted.
C4_Witness ==
    /\ ExtraitCompte
    /\ file.solde_initial.matched /\ SoldeInitialSpan = 84
    /\ ~ret.entries[1].amount.number.neg
    /\ SoldeFinalFound /\ file.solde_final.ws = 83
    /\ ret.entries[Len(ret.entries)].amount.number.neg

OperationSpan(l) == Len(l.payee) + DateLen(l.date) + l.gap + Len(l.montant)

\* The posting amount of the transaction extracted for operation line i (the
\* opening balance comes first in the list).
OperationUnits(i) == ret.entries[i + 1].postings[1].units

\* C5 (as amended): in an account statement the combined length of the
\* captured payee, date, gap and amount of a transaction line decides the
\* sign: a length of 148 or less gives a debit (negated amount), a length
\* above 148 a credit (positive amount).
C5_OperationSeuil148 ==
    ExtraitCompte =>
      \A i \in 1..Len(file.operations) :
        /\ ret.entries[i + 1].kind = "Transaction"
        /\ OperationUnits(i).currency = "EUR"
        /\ OperationUnits(i).number.ok /\ OperationUnits(i).number.exp = 2
        /\ OperationUnits(i).number.coef = centimes_attendus(file.operations[i].montant)
        /\ (OperationSpan(file.operations[i]) <= 148 => OperationUnits(i).number.neg)
        /\ (OperationSpan(file.operations[i]) > 148 => ~OperationUnits(i).number.neg)

\* C5 as stated: a length below 148 gives a debit and a length of 148 or
\* more, 148 included, a credit.
C5_Original ==
    ExtraitCompte =>
      \A i \in 1..Len(file.operations) :
        /\ (OperationSpan(file.operations[i]) < 148 => OperationUnits(i).number.neg)
        /\ (OperationSpan(file.operations[i]) >= 148 => ~OperationUnits(i).number.neg)

\* A transaction line of length exactly 148 has been extracted as a debit,
\* next to one of length 149 extracted as a credit.
C5_Witness ==
    /\ ExtraitCompte
    /\ Len(file.operations) = 2
    /\ OperationSpan(file.operations[1]) = 148 /\ OperationUnits(1).number.neg
    /\ OperationSpan(file.operations[2]) = 149 /\ ~OperationUnits(2).number.neg

\* The day after a sample date, from the calendar.
lendemain_attendu(t) ==
    CASE t = D_01_01_2023 -> Date(2023, 1, 2)
      [] t = D_31_12_2023 -> Date(2024, 1, 1)
      [] t = D_28_02_2024 -> Date(2024, 2, 29)
      [] t = D_5_03_2023 -> Date(2023, 3, 6)
      [] t = D_05_03_2023 -> Date(2023, 3, 6)

\* C6: a matched opening-balance line gives, first in the list, a balance on
\* the account the directory gives for the statement's account number, dated
\* the day after the stated date, of the stated amount (thousands period
\* removed, decimal comma read as the decimal point) in EUR.
C6_SoldeInitial ==
    (ExtraitCompte /\ file.solde_initial.matched) =>
      /\ ret.entries[1].kind = "Balance"
      /\ ret.entries[1].account = accountList[file.acct.digits]
      /\ ret.entries[1].date = lendemain_attendu(file.solde_initial.date)
      /\ ret.entries[1].amount.currency = "EUR"
      /\ ret.entries[1].amount.number.ok
      /\ ret.entries[1].amount.number.exp = 2
      /\ ret.entries[1].amount.number.coef = centimes_attendus(file.solde_initial.montant)

\* "SOLDE AU : 31/12/2023 ... 1.234,56" has been extracted as a balance of
\* 1234.56 EUR on 2024-01-01.
C6_Witness ==
    /\ ExtraitCompte
    /\ file.solde_initial.matched
    /\ file.solde_initial.date = D_31_12_2023
    /\ file.solde_initial.montant = M_1234_56
    /\ ret.entries[1].date = Date(2024, 1, 1)
    /\ ret.entries[1].amount.number = Dec(FALSE, 123456, 2)

(***************************************************************************)
(* Specification SpecCB: card statements (dialect "CB").                   *)
(***************************************************************************)
T_SUPERMARCHE_PARIS == <<"S", "U", "P", "E", "R", "M", "A", "R", "C", "H", "E", " ", "P", "A", "R", "I", "S">>

T_FNAC == <<"F", "N", "A", "C">>

CarteConnue == Account("card", "4979********1234", "")

CarteInconnue == Account("card", "4810********0000", "")

carte_of(date, sep, merchant, gap, montant) ==
    [date |-> date, sep |-> sep, merchant |-> merchant, gap |-> gap, montant |-> montant]

CBVide ==
    [EmptyText EXCEPT !.markers = {5}, !.acct = CarteConnue,
                      !.date_ref = [matched |-> TRUE, text |-> D_31_12_2023]]

CarteLines ==
    {carte_of(d, sep, t, gap, m) :
        d \in {D_05_03_2023, D_5_03_2023}, sep \in {1, 2},
        t \in {T_SUPERMARCHE_PARIS, T_FNAC}, gap \in {1, 4}, m \in {M_45_30, M_1234_56}}
    \cup {carte_of(D_31_02_2023, 1, T_FNAC, 1, M_45_30)}

CartePair ==
    {carte_of(D_05_03_2023, 1, T_SUPERMARCHE_PARIS, 4, M_45_30),
     carte_of(D_31_12_2023, 1, T_FNAC, 1, M_1234_56)}

FilesCB ==
    {[CBVide EXCEPT !.cartes = <<l>>] : l \in CarteLines}
    \cup {[CBVide EXCEPT !.cartes = ls] : ls \in SeqsUpTo(CartePair, MaxLines)}
    \cup {[CBVide EXCEPT !.cartes = ls,
                         !.debit_cb = [matched |-> TRUE, date |-> D_31_12_2023,
                                       montant |-> m],
                         !.date_40618 = dm] :
             ls \in SeqsUpTo(CartePair, 1), m \in {M_1234_56, M_1234567_89},
             dm \in {NoDateMatch, [matched |-> TRUE, date |-> D_28_02_2024]}}
    \cup {[CBVide EXCEPT !.cartes = ls, !.acct = a] :
             ls \in SeqsUpTo(CartePair, 1), a \in {NoAccount, CarteInconnue}}
    \cup {[CBVide EXCEPT !.cartes = ls, !.date_ref = d] :
             ls \in SeqsUpTo(CartePair, 1),
             d \in {[matched |-> FALSE, text |-> EmptyDateText],
                    [matched |-> TRUE, text |-> D_31_02_2023]}}
    \cup {EmptyText, NotPdf}

InitCB == InitOn(FilesCB)

NextCB ==
    \/ \E f \in FilesCB : Submit(f)
    \/ Identify
    \/ FileName
    \/ FileAccount
    \/ FileDate
    \/ Extract

SpecCB == InitCB /\ [][NextCB]_vars

\* The date that a sample date text states, day first.
date_attendue(t) ==
    CASE t = D_01_01_2023 -> Date(2023, 1, 1)
      [] t = D_31_12_2023 -> Date(2023, 12, 31)
      [] t = D_28_02_2024 -> Date(2024, 2, 28)
      [] t = D_5_03_2023 -> Date(2023, 3, 5)
      [] t = D_05_03_2023 -> Date(2023, 3, 5)

ExtraitCB == ret.op = "extract" /\ ret.exc = "" /\ type = "CB"

\* C7: in a card statement every line "<date> CARTE <merchant> <amount>"
\* gives one transaction of that date with a single posting on the card
\* account of the negated amount in EUR, whose payee is the merchant text
\* with no leading or trailing whitespace.
C7_CartePayee ==
    ExtraitCB =>
      /\ Cardinality({k \in 1..Len(ret.entries) : ret.entries[k].kind = "Transaction"})
           = Len(file.cartes)
      /\ \A i \in 1..Len(file.cartes) :
           /\ ret.entries[i].kind = "Transaction"
           /\ ret.entries[i].date = date_attendue(file.cartes[i].date)
           /\ Len(ret.entries[i].postings) = 1
           /\ ret.entries[i].postings[1].account = accountList[file.acct.key]
           /\ ret.entries[i].postings[1].units.currency = "EUR"
           /\ ret.entries[i].postings[1].units.number.neg
           /\ ret.entries[i].postings[1].units.number.exp = 2
           /\ ret.entries[i].postings[1].units.number.coef
                = centimes_attendus(file.cartes[i].montant)
           /\ ret.entries[i].payee = file.cartes[i].merchant

(***************************************************************************)
(* Specification SpecAmortissement: loan schedules.                        *)
(***************************************************************************)
A_500_00 == <<"5", "0", "0", ",", "0", "0">>

A_400_00 == <<"4", "0", "0", ",", "0", "0">>

A_90_00 == <<"9", "0", ",", "0", "0">>

A_10_00 == <<"1", "0", ",", "0", "0">>

A_0_00 == <<"0", ",", "0", "0">>

A_9600_00 == <<"9", "6", "0", "0", ",", "0", "0">>

A_10100_00 == <<"1", "0", "1", "0", "0", ",", "0", "0">>

\* "100x00": matched by \d+.\d{2}, whose period is not escaped.
A_100x00 == <<"1", "0", "0", "x", "0", "0">>

CreditConnu == Account("credit", "12345-00012345678", "00012345678")

CreditInconnu == Account("credit", "54321-00099999999", "00099999999")

echeance_of(date, crd, dernier) ==
    [date |-> date,
     cols |-> <<A_500_00, A_400_00, A_90_00, A_10_00, A_0_00, A_0_00, crd, dernier>>]

AmortissementVide ==
    [EmptyText EXCEPT !.markers = {7}, !.acct = CreditConnu,
                      !.date_ref = [matched |-> TRUE, text |-> D_01_01_2023]]

EcheanceLines ==
    {echeance_of(d, crd, dernier) :
        d \in {D_05_03_2023, D_31_12_2023, D_28_02_2024, D_31_02_2023, EmptyDateText},
        crd \in {A_9600_00, A_10100_00, A_0_00},
        dernier \in {A_9600_00, A_10100_00}}
    \cup {echeance_of(D_05_03_2023, A_100x00, A_9600_00),
          [date |-> D_05_03_2023,
           cols |-> <<A_100x00, A_400_00, A_90_00, A_10_00, A_0_00, A_0_00,
                      A_9600_00, A_10100_00>>]}

EcheancePair ==
    {echeance_of(D_05_03_2023, A_10100_00, A_9600_00),
     echeance_of(D_31_12_2023, A_9600_00, A_9600_00)}

\* Two lines, one of which has a text that cannot be converted.
EcheancesMixtes ==
    {<<echeance_of(D_05_03_2023, A_100x00, A_9600_00),
       echeance_of(D_31_12_2023, A_9600_00, A_9600_00)>>,
     <<echeance_of(D_05_03_2023, A_10100_00, A_9600_00),
       echeance_of(EmptyDateText, A_9600_00, A_9600_00)>>}

FilesAmortissement ==
    {[AmortissementVide EXCEPT !.echeances = <<l>>] : l \in EcheanceLines}
    \cup {[AmortissementVide EXCEPT !.echeances = ls] :
             ls \in SeqsUpTo(EcheancePair, MaxLines)}
    \cup {[AmortissementVide EXCEPT !.echeances = ls] : ls \in EcheancesMixtes}
    \cup {[AmortissementVide EXCEPT !.echeances = ls, !.acct = a] :
             ls \in SeqsUpTo(EcheancePair, 1), a \in {NoAccount, CreditInconnu}}
    \cup {EmptyText, NotPdf}

InitAmortissement == InitOn(FilesAmortissement)

NextAmortissement ==
    \/ \E f \in FilesAmortissement : Submit(f)
    \/ Identify
    \/ FileName
    \/ FileAccount
    \/ FileDate
    \/ Extract

SpecAmortissement == InitAmortissement /\ [][NextAmortissement]_vars

\* The value, in hundredths, that a sample schedule column states.
centimes_colonne(text) ==
    CASE text = A_500_00 -> 50000
      [] text = A_400_00 -> 40000
      [] text = A_90_00 -> 9000
      [] text = A_10_00 -> 1000
      [] text = A_0_00 -> 0
      [] text = A_9600_00 -> 960000
      [] text = A_10100_00 -> 1010000

ExtraitAmortissement == ret.op = "extract" /\ ret.exc = "" /\ type = "Amortissement"

\* A decimal of two fractional digits with this sign and these hundredths.
EstMontant(x, neg, centimes) == x.ok /\ x.neg = neg /\ x.exp = 2 /\ x.coef = centimes

\* The transaction of schedule line i is the four-leg one the claim
\* describes and the balance that follows it is on the loan account, one
\* day later.
EcheanceExtraite(i) ==
    /\ ret.entries[2 * i - 1].kind = "Transaction"
    /\ ret.entries[2 * i - 1].date = date_attendue(file.echeances[i].date)
    /\ Len(ret.entries[2 * i - 1].postings) = 4
    /\ ret.entries[2 * i - 1].postings[1].account = <<"Actif:Boursorama:CCJoint">>
    /\ EstMontant(ret.entries[2 * i - 1].postings[1].units.number, TRUE,
                  centimes_colonne(file.echeances[i].cols[1]))
    /\ ret.entries[2 * i - 1].postings[2].account = accountList[file.acct.key]
    /\ EstMontant(ret.entries[2 * i - 1].postings[2].units.number, FALSE,
                  centimes_colonne(file.echeances[i].cols[2]))
    /\ ret.entries[2 * i - 1].postings[3].account = <<"Depenses:Banque:Interet">>
    /\ EstMontant(ret.entries[2 * i - 1].postings[3].units.number, FALSE,
                  centimes_colonne(file.echeances[i].cols[3]))
    /\ ret.entries[2 * i - 1].postings[4].account = <<"Depenses:Banque:AssuEmprunt">>
    /\ EstMontant(ret.entries[2 * i - 1].postings[4].units.number, FALSE,
                  centimes_colonne(file.echeances[i].cols[4]))
    /\ ret.entries[2 * i].kind = "Balance"
    /\ ret.entries[2 * i].account = accountList[file.acct.key]
    /\ ret.entries[2 * i].date = lendemain_attendu(file.echeances[i].date)
    /\ ret.entries[2 * i].amount.currency = "EUR"

\* C8 (as amended): every matched schedule line gives one transaction with
\* four postings (bank leg = negated deduction, loan leg = principal, then
\* interest and insurance), immediately followed by one balance on the loan
\* account dated one day later that asserts the negation of the seventh
\* amount column of the line, the one before the last captured column.
C8_Echeance ==
    ExtraitAmortissement =>
      /\ Len(ret.entries) = 2 * Len(file.echeances)
      /\ \A i \in 1..Len(file.echeances) :
           /\ EcheanceExtraite(i)
           /\ EstMontant(ret.entries[2 * i].amount.number, TRUE,
                         centimes_colonne(file.echeances[i].cols[7]))

\* C8 as stated: the balance asserts the negation of the last captured
\* column of the line.
C8_Original ==
    ExtraitAmortissement =>
      /\ Len(ret.entries) = 2 * Len(file.echeances)
      /\ \A i \in 1..Len(file.echeances) :
           /\ EcheanceExtraite(i)
           /\ EstMontant(ret.entries[2 * i].amount.number, TRUE,
                         centimes_colonne(file.echeances[i].cols[8]))

\* Two schedule lines have been extracted, the first with a seventh column
\* (10100,00) that differs from its last one (9600,00).
C8_Witness ==
    /\ ExtraitAmortissement
    /\ Len(file.echeances) = 2
    /\ file.echeances[1].cols[7] = A_10100_00
    /\ file.echeances[1].cols[8] = A_9600_00
    /\ Len(ret.entries) = 4
    /\ ret.entries[2].amount.number = Dec(TRUE, 1010000, 2)

(***************************************************************************)
(* Amount texts with a space-class thousands separator, as the patterns of *)
(* the securities dialects capture them.                                   *)
(***************************************************************************)
S_1_234_56 == <<"1", " ", "2", "3", "4", ",", "5", "6">>

N_1_234_56 == <<"1", "nbsp", "2", "3", "4", ",", "5", "6">>

S_45_30 == <<" ", "4", "5", ",", "3", "0">>

N_45_30 == <<"nbsp", "4", "5", ",", "3", "0">>

S_12_5 == <<" ", "1", "2", ",", "5">>

S_10 == <<" ", "1", "0">>

S_1_000 == <<"1", " ", "0", "0", "0">>

N_1_000 == <<"1", "nbsp", "0", "0", "0">>

S_1_99 == <<" ", "1", ",", "9", "9">>

S_0_00 == <<" ", "0", ",", "0", "0">>

S_9_99 == <<" ", "9", ",", "9", "9">>

T_TOTAL == <<"T", "O", "T", "A", "L">>

ISIN_TOTAL == "FR0000120271"

RibConnu == Account("rib40618", "00012345678", "00012345678")

RibInconnu == Account("rib40618", "00099999999", "00099999999")

\* The exact decimal that a sample amount text states.
decimal_attendu(text) ==
    CASE text \in {S_1_234_56, N_1_234_56} -> Dec(FALSE, 123456, 2)
      [] text \in {S_45_30, N_45_30} -> Dec(FALSE, 4530, 2)
      [] text = S_12_5 -> Dec(FALSE, 125, 1)
      [] text = S_10 -> Dec(FALSE, 10, 0)
      [] text \in {S_1_000, N_1_000} -> Dec(FALSE, 1000, 0)
      [] text = S_1_99 -> Dec(FALSE, 199, 2)
      [] text = S_0_00 -> Dec(FALSE, 0, 2)
      [] text = S_9_99 -> Dec(FALSE, 999, 2)

(***************************************************************************)
(* Specification SpecBourse: trade confirmations (dialect "Bourse").       *)
(***************************************************************************)
EUR(text) == [text |-> text, currency |-> "EUR"]

bourse_of(total, frais, quantite, cours, achat) ==
    [montants |-> <<EUR(S_9_99), EUR(S_0_00), EUR(total), EUR(S_1_99), EUR(S_12_5)>>,
     frais |-> <<EUR(S_9_99), EUR(S_12_5), EUR(frais)>>,
     execution |-> [matched |-> TRUE, date |-> D_5_03_2023, quantite |-> quantite,
                    designation |-> T_TOTAL],
     cours |-> [matched |-> TRUE, text |-> cours, currency |-> "EUR"],
     achat |-> achat]

BourseVide ==
    [EmptyText EXCEPT !.markers = {3}, !.acct = RibConnu, !.isin = ISIN_TOTAL,
                      !.date_ref = [matched |-> TRUE, text |-> D_05_03_2023]]

BourseOperations ==
    {bourse_of(total, frais, quantite, S_12_5, achat) :
        total \in {S_1_234_56, N_1_234_56, S_45_30},
        frais \in {S_1_99, S_0_00},
        quantite \in {S_10, S_1_000, N_1_000},
        achat \in BOOLEAN}

BourseAchat == bourse_of(S_1_234_56, S_1_99, S_10, S_12_5, TRUE)

BourseIncomplete ==
    {[BourseAchat EXCEPT !.montants = <<>>],
     [BourseAchat EXCEPT !.frais = <<>>],
     [BourseAchat EXCEPT !.execution = NoTitres.execution],
     [BourseAchat EXCEPT !.cours = NoTitres.cours],
     [BourseAchat EXCEPT !.execution.date = D_31_02_2023]}

FilesBourse ==
    {[BourseVide EXCEPT !.bourse = b] : b \in BourseOperations \cup BourseIncomplete}
    \cup {[BourseVide EXCEPT !.bourse = BourseAchat, !.acct = a] :
             a \in {NoAccount, RibInconnu, Account("rib", "00012345678", "00012345678")}}
    \cup {[BourseVide EXCEPT !.bourse = BourseAchat, !.isin = ""],
          BourseVide, EmptyText, NotPdf}

InitBourse == InitOn(FilesBourse)

NextBourse ==
    \/ \E f \in FilesBourse : Submit(f)
    \/ Identify
    \/ FileName
    \/ FileAccount
    \/ FileDate
    \/ Extract

SpecBourse == InitBourse /\ [][NextBourse]_vars

ExtraitBourse == ret.op = "extract" /\ ret.exc = "" /\ type = "Bourse"

\* The decimal x is the stated decimal with this sign.
EstDecimal(x, neg, attendu) ==
    x.ok /\ x.neg = neg /\ x.coef = attendu.coef /\ x.exp = attendu.exp

\* C9: in a trade confirmation the purchase flag fixes the signs.  Purchase:
\* the security leg carries +quantity with a cost attached and the cash leg
\* the negated transaction total.  Sale: the security leg carries -quantity
\* with no cost and the cash leg the transaction total.  The two legs never
\* have the same sign and the fee leg is never negated.
C9_SignesBourse ==
    ExtraitBourse =>
      /\ Len(ret.entries) = 1
      /\ Len(ret.entries[1].postings) = 3
      /\ EstDecimal(ret.entries[1].postings[1].units.number, ~file.bourse.achat,
                    decimal_attendu(file.bourse.execution.quantite))
      /\ ret.entries[1].postings[1].cost.present = file.bourse.achat
      /\ EstDecimal(ret.entries[1].postings[2].units.number, file.bourse.achat,
                    decimal_attendu(file.bourse.montants[3].text))
      /\ ret.entries[1].postings[1].units.number.neg
           # ret.entries[1].postings[2].units.number.neg
      /\ EstDecimal(ret.entries[1].postings[3].units.number, FALSE,
                    decimal_attendu(file.bourse.frais[3].text))

\* A sale of 1 000 shares for 1 234,56 has been extracted: -1000 on the
\* security leg without cost, +1234.56 on the cash leg.
C9_Witness ==
    /\ ExtraitBourse
    /\ ~file.bourse.achat
    /\ ret.entries[1].postings[1].units.number = Dec(TRUE, 1000, 0)
    /\ ~ret.entries[1].postings[1].cost.present
    /\ ret.entries[1].postings[2].units.number = Dec(FALSE, 123456, 2)

(***************************************************************************)
(* Specification SpecReleves: dividend notices and cash statements of the  *)
(* securities account (dialects "DividendeBourse" and "EspeceBourse").     *)
(***************************************************************************)
dividende_of(date, brut, retenue1, retenue2, net) ==
    [date |-> date, quantite |-> <<"1", "0">>, label |-> T_TOTAL, isin |-> ISIN_TOTAL,
     brut |-> brut, retenue1 |-> retenue1, retenue2 |-> retenue2, net |-> net]

espece_of(date, solde) == [date |-> date, solde |-> solde]

DividendeVide ==
    [EmptyText EXCEPT !.markers = {1}, !.acct = RibConnu,
                      !.date_ref = [matched |-> TRUE, text |-> D_31_12_2023]]

EspeceVide == [DividendeVide EXCEPT !.markers = {2}]

DividendeLines ==
    {dividende_of(d, brut, r1, S_9_99, net) :
        d \in {D_05_03_2023, D_31_12_2023},
        brut \in {S_1_234_56, N_1_234_56},
        r1 \in {<<>>, S_1_99},
        net \in {S_45_30, N_45_30}}
    \cup {dividende_of(D_31_02_2023, S_45_30, <<>>, S_9_99, S_45_30)}

EspeceLines ==
    {espece_of(d, solde) :
        d \in {D_05_03_2023, D_31_12_2023, D_31_02_2023},
        solde \in {S_1_234_56, N_1_234_56, S_45_30, N_45_30, S_12_5}}

EspecePair ==
    {espece_of(D_05_03_2023, S_1_234_56), espece_of(D_31_12_2023, S_45_30)}

FilesReleves ==
    {[DividendeVide EXCEPT !.dividendes = <<l>>] : l \in DividendeLines}
    \cup {[EspeceVide EXCEPT !.especes = <<l>>] : l \in EspeceLines}
    \cup {[EspeceVide EXCEPT !.especes = ls] : ls \in SeqsUpTo(EspecePair, MaxLines)}
    \cup {[EspeceVide EXCEPT !.especes = ls, !.acct = a] :
             ls \in SeqsUpTo(EspecePair, 1), a \in {NoAccount, RibInconnu}}
    \cup {DividendeVide, EmptyText, NotPdf}

InitReleves == InitOn(FilesReleves)

NextReleves ==
    \/ \E f \in FilesReleves : Submit(f)
    \/ Identify
    \/ FileName
    \/ FileAccount
    \/ FileDate
    \/ Extract

SpecReleves == InitReleves /\ [][NextReleves]_vars

\* Every line of the document has a date that exists and the account of
\* the document is in the directory.
RelevePropre ==
    /\ file.acct = RibConnu
    /\ \A i \in 1..Len(file.dividendes) : file.dividendes[i].date # D_31_02_2023
    /\ \A i \in 1..Len(file.especes) : file.especes[i].date # D_31_02_2023

\* C10: in the dialects whose amounts use spaces as thousands separators,
\* every amount text that the pattern captures, with ordinary or
\* non-breaking spaces, converts without error to the exact decimal it
\* states: the extraction of a dividend notice or of a cash statement does
\* not fail, and the gross and net amounts and the cash balances equal the
\* decimals of the texts.
C10_Conversion ==
    (ret.op = "extract" /\ type \in {"DividendeBourse", "EspeceBourse"} /\ RelevePropre)
      => /\ ret.exc = ""
         /\ type = "DividendeBourse" =>
              /\ Len(ret.entries) = Len(file.dividendes)
              /\ \A i \in 1..Len(file.dividendes) :
                   /\ EstDecimal(ret.entries[i].postings[1].units.number, TRUE,
                                 decimal_attendu(file.dividendes[i].brut))
                   /\ EstDecimal(ret.entries[i].postings[3].units.number, FALSE,
                                 decimal_attendu(file.dividendes[i].net))
         /\ type = "EspeceBourse" =>
              /\ Len(ret.entries) = Len(file.especes)
              /\ \A i \in 1..Len(file.especes) :
                   EstDecimal(ret.entries[i].amount.number, FALSE,
                              decimal_attendu(file.especes[i].solde))

(***************************************************************************)
(* Specification Spec: one importer given documents of several dialects,   *)
(* texts that hold the markers of several checks, texts that hold none,    *)
(* and a file that is not a PDF.                                           *)
(***************************************************************************)
MaxMarkers == 2

MarkerSets == {ms \in SUBSET (1..Len(Checks)) : Cardinality(ms) <= MaxMarkers}

CompteDoc == [CompteSolde EXCEPT !.operations = <<operation_of(T_VIR, D_05_03_2023, 148, M_45_30, <<>>)>>]

CBDoc == [CBVide EXCEPT !.cartes = <<carte_of(D_05_03_2023, 1, T_FNAC, 1, M_45_30)>>]

DividendeDoc ==
    [DividendeVide EXCEPT
        !.dividendes = <<dividende_of(D_05_03_2023, S_1_234_56, <<>>, S_9_99, S_45_30)>>]

BourseDoc == [BourseVide EXCEPT !.bourse = BourseAchat]

Documents == {CompteDoc, CBDoc, DividendeDoc, BourseDoc}

Files ==
    {[b EXCEPT !.markers = ms] : b \in Documents, ms \in MarkerSets}
    \cup {EmptyText, NotPdf}

Init == InitOn(Files)

Next ==
    \/ \E f \in Files : Submit(f)
    \/ Identify
    \/ FileName
    \/ FileAccount
    \/ FileDate
    \/ Extract

Spec == Init /\ [][Next]_vars

\* The tag of the earliest check, in the order of the claim, among the
\* checks whose marker is in the text.
tag_attendu(markers) ==
    IF 1 \in markers THEN "DividendeBourse"
    ELSE IF 2 \in markers THEN "EspeceBourse"
    ELSE IF 3 \in markers THEN "Bourse"
    ELSE IF 4 \in markers THEN "OPCVM"
    ELSE IF 5 \in markers THEN "CB"
    ELSE IF 6 \in markers THEN "Compte"
    ELSE "Amortissement"

\* C1: identify stores the tag of the first matching check in the order
\* dividend, cash statement, trade, fund operation, card statement, bank
\* identity, amortization schedule, whatever other markers the text holds
\* and whatever tag was stored before; identifying the same text again
\* gives the same tag.
C1_PremierMarqueur ==
    (ret.op = "identify" /\ file.pdf /\ file.markers # {})
      => /\ type = tag_attendu(file.markers)
         /\ ret.value = "1"
         /\ identify(type, file).type = type

\* A text with a dividend marker and a bank-identity marker has been
\* identified as a dividend notice.
C1_Witness ==
    /\ ret.op = "identify"
    /\ file.markers = {1, 6}
    /\ type = "DividendeBourse"

\* What a new importer, whose self.type is not set, answers to the call op
\* on the document f.
reponse_neuve(op, f) ==
    CASE op = "identify" -> call_identify(identify(Unset, f)).ret
      [] op = "file_name" -> call_file_name(file_name(Unset, f)).ret
      [] op = "file_account" -> call_file_account(file_account(Unset, f)).ret
      [] op = "file_date" -> call_file_date(Unset, file_date(f)).ret
      [] op = "extract" -> call_extract(extract(Unset, f)).ret

\* C2: whatever documents the importer processed before, what identify,
\* file_name, file_account and extract give for the current document is
\* what a new importer gives for that document alone.
C2_SansEtat == ret.op # "none" => ret = reponse_neuve(ret.op, file)

\* C3: when no marker matches the text of a document, or the document is
\* not a PDF, extract returns an empty list of records without raising,
\* for the first document of a new importer and for a later one.
C3_NonClasse ==
    (ret.op = "extract" /\ (~file.pdf \/ file.markers = {}))
      => ret.exc = "" /\ ret.entries = <<>>

(***************************************************************************)
(* Claims on what extract does with what a text lacks or with what cannot  *)
(* be converted.                                                           *)
(***************************************************************************)
\* C11: an amount whose text is empty (here the opening balance of an
\* account statement whose pattern is not found) is never turned into
\* zero: no record returned by extract carries the amount 0 made from it.
C11_MontantVide ==
    (ExtraitCompte /\ ~file.solde_initial.matched)
      => \A i \in 1..Len(ret.entries) :
           ret.entries[i].kind = "Balance" => ret.entries[i].amount.number.coef # 0

\* The dates of the operation lines of the document exist.
OperationsDatees ==
    \A i \in 1..Len(file.operations) : file.operations[i].date # D_31_02_2023

\* C15: when the opening balance of an account statement is not found,
\* only that record is not produced: extract returns normally, with one
\* transaction per matched operation line, and with no record built from
\* the missing fields (no balance with an empty date).
C15_SoldeInitialAbsent ==
    (/\ ret.op = "extract"
     /\ type = "Compte"
     /\ file.acct = CompteConnu
     /\ ~file.solde_initial.matched
     /\ OperationsDatees)
      => /\ ret.exc = ""
         /\ Cardinality({i \in 1..Len(ret.entries) : ret.entries[i].kind = "Transaction"})
              = Len(file.operations)
         /\ \A i \in 1..Len(ret.entries) : ret.entries[i].date # NoDate

\* C12: when the account key found in the document (here the card number
\* of a card statement) is not in the account directory, extract fails
\* with a lookup failure and returns no record.
C12_CompteInconnu ==
    (ret.op = "extract" /\ type = "CB" /\ file.acct = CarteInconnue)
      => ret.exc = "KeyError" /\ ret.entries = <<>>

\* C13: every record returned by extract (here for a loan schedule, the
\* transactions and the balances alike) carries metadata with the origin
\* tag "pdfbourso" and a document entry holding the display name.
C13_Metadonnees ==
    ExtraitAmortissement =>
      \A i \in 1..Len(ret.entries) :
        /\ ret.entries[i].meta.source = "pdfbourso"
        /\ ret.entries[i].meta.has_document
        /\ ret.entries[i].meta.document.label = file_name(type, file).value

\* The schedule line can be converted: its date exists and its amounts are
\* numbers.
EcheanceConvertible(l) ==
    /\ l.date \notin {D_31_02_2023, EmptyDateText}
    /\ \A k \in {1, 2, 3, 4, 7} : l.cols[k] # A_100x00

\* C16: in a repeated-line dialect (here the loan schedule) a matched line
\* whose date or amount text cannot be converted aborts only its own
\* records: extract returns normally with the transaction and the balance
\* of every other matched line.
C16_LigneIllisible ==
    (ret.op = "extract" /\ type = "Amortissement" /\ file.acct = CreditConnu)
      => /\ ret.exc = ""
         /\ Len(ret.entries)
              = 2 * Cardinality({i \in 1..Len(file.echeances) :
                                   EcheanceConvertible(file.echeances[i])})

\* C20: the display name in the document metadata of every record returned
\* by extract (here for a card statement) starts with a valid date, the
\* reference date of the text, also when the text has no anchored date.
C20_NomDocument ==
    ExtraitCB =>
      \A i \in 1..Len(ret.entries) :
        /\ ret.entries[i].meta.has_document
        /\ ret.entries[i].meta.document.known
        /\ ValidDate(ret.entries[i].meta.document.date)

\* C14: file_name returns the generic label "Boursorama.pdf" if and only
\* if the document is unclassified (not a PDF, or no marker in its text);
\* a document of any of the seven dialects gets a label of its own.
C14_LibelleGenerique ==
    ret.op = "file_name"
      => ((ret.exc = "" /\ ret.value = "Boursorama.pdf")
            <=> (~file.pdf \/ file.markers = {}))

\* C17: for a dividend notice and for a cash statement alike, file_account
\* returns the path that the directory gives for the account key followed
\* by the sub-path "Cash".
C17_SousCompteCash ==
    (ret.op = "file_account" /\ ret.exc = ""
       /\ type \in {"DividendeBourse", "EspeceBourse"})
      => /\ ret.account.present
         /\ ret.account.path = Append(accountList[file.acct.digits], "Cash")

\* C19: file_account never returns without a value: when the account
\* pattern or (trade dialect) the "Code ISIN" pattern is not found, or the
\* key is not in the directory, the call fails.
C19_CompteAbsent ==
    (ret.op = "file_account" /\ type = "Bourse")
      => (ret.exc # "" \/ ret.account.present)

(***************************************************************************)
(* Specification SpecOPCVM: fund operations (dialect "OPCVM").  The amount *)
(* header names five columns (gross amount, entry fees, pre-tax fees, VAT, *)
(* net debit amount); montants holds the amounts that follow it.           *)
(***************************************************************************)
opcvm_of(droits, frais, tva, net, achat) ==
    [montants |-> <<EUR(S_1_234_56), EUR(droits), EUR(frais), EUR(tva), EUR(net)>>,
     frais |-> <<>>,
     execution |-> [matched |-> TRUE, date |-> D_5_03_2023, quantite |-> S_10,
                    designation |-> T_TOTAL],
     cours |-> [matched |-> TRUE, text |-> S_12_5, currency |-> "EUR"],
     achat |-> achat]

OPCVMVide ==
    [EmptyText EXCEPT !.markers = {4}, !.acct = RibConnu, !.isin = ISIN_TOTAL,
                      !.date_ref = [matched |-> TRUE, text |-> D_05_03_2023]]

OPCVMOperations ==
    {opcvm_of(droits, frais, tva, net, achat) :
        droits \in {S_9_99, S_0_00},
        frais \in {S_1_99, S_0_00},
        tva \in {S_0_00, S_12_5},
        net \in {S_1_234_56, N_1_234_56, S_45_30},
        achat \in BOOLEAN}

OPCVMSouscription == opcvm_of(S_9_99, S_1_99, S_12_5, S_1_234_56, TRUE)

OPCVMIncomplete ==
    {[OPCVMSouscription EXCEPT !.montants = SubSeq(OPCVMSouscription.montants, 1, n)] :
        n \in {0, 3, 4}}
    \cup {[OPCVMSouscription EXCEPT !.execution = NoTitres.execution],
          [OPCVMSouscription EXCEPT !.cours = NoTitres.cours],
          [OPCVMSouscription EXCEPT !.execution.date = D_31_02_2023]}

FilesOPCVM ==
    {[OPCVMVide EXCEPT !.opcvm = b] : b \in OPCVMOperations \cup OPCVMIncomplete}
    \cup {[OPCVMVide EXCEPT !.opcvm = OPCVMSouscription, !.acct = a] :
             a \in {NoAccount, RibInconnu}}
    \cup {[OPCVMVide EXCEPT !.opcvm = OPCVMSouscription, !.isin = ""],
          OPCVMVide, EmptyText, NotPdf}

InitOPCVM == InitOn(FilesOPCVM)

NextOPCVM ==
    \/ \E f \in FilesOPCVM : Submit(f)
    \/ Identify
    \/ FileName
    \/ FileAccount
    \/ FileDate
    \/ Extract

SpecOPCVM == InitOPCVM /\ [][NextOPCVM]_vars

ExtraitOPCVM == ret.op = "extract" /\ ret.exc = "" /\ type = "OPCVM"

\* C18: in a fund operation whose amount header is followed by its five
\* amounts, the cash leg carries the net debit amount (the fifth), negated
\* on a subscription and positive otherwise, and the fee leg carries the
\* sum of the entry fees (the second) and the pre-tax fees (the third).
C18_MontantNet ==
    (ExtraitOPCVM /\ Len(file.opcvm.montants) = 5)
      => /\ EstDecimal(ret.entries[1].postings[2].units.number, file.opcvm.achat,
                       decimal_attendu(file.opcvm.montants[5].text))
         /\ EstDecimal(ret.entries[1].postings[3].units.number, FALSE,
                       Dec(FALSE,
                           decimal_attendu(file.opcvm.montants[2].text).coef
                           + decimal_attendu(file.opcvm.montants[3].text).coef, 2))

====
